---- MODULE Spec2Model ----
(***************************************************************************)
(* kdwils/feedreader: the cursor (keyset) pagination of feeds and articles *)
(* over the SQLite store (storage/sqlite.go, storage/api.go), the parsing  *)
(* of the page options, and the clients that follow the cursors.           *)
(*                                                                         *)
(* Strings are sequences of one-character strings, so that strconv.Atoi,   *)
(* strings.ToLower, fmt.Sprintf("%d") and SQLite's text comparison are     *)
(* computed rather than assumed.                                           *)
(***************************************************************************)
EXTENDS Integers, Sequences, FiniteSets, TLC

VARIABLES feeds, articles, req, resp, trav, db, calls, poller, refresh

vars == <<feeds, articles, req, resp, trav, db, calls, poller, refresh>>

-----------------------------------------------------------------------------
(* Bounds of the model                                                     *)

MaxFeeds == 3
MaxArticles == 3

\* writes that other requests make while one listing call, or one traversal,
\* is under way
MaxRaceWrites == 1

\* publish times (unix seconds) offered to CreateArticle; they straddle a
\* change in the number of decimal digits
PubTimes == {9, 10, 11}

-----------------------------------------------------------------------------
(* Characters and strings                                                  *)

\* the characters used, in ASCII order
Chars ==
  <<"+", "-", "0", "1", "2", "3", "4", "5", "6", "7", "8", "9",
    "A", "B", "C", "D", "E", "F", "G", "H", "I", "J", "K", "L", "M",
    "N", "O", "P", "Q", "R", "S", "T", "U", "V", "W", "X", "Y", "Z",
    "a", "b", "c", "d", "e", "f", "g", "h", "i", "j", "k", "l", "m",
    "n", "o", "p", "q", "r", "s", "t", "u", "v", "w", "x", "y", "z">>

CodeTable == [c \in {Chars[i] : i \in 1..Len(Chars)} |-> CHOOSE i \in 1..Len(Chars) : Chars[i] = c]

Code(c) == CodeTable[c]

DigitChars == <<"0", "1", "2", "3", "4", "5", "6", "7", "8", "9">>

IsDigit(c) == Code(c) >= Code("0") /\ Code(c) <= Code("9")

DigitVal(c) == Code(c) - Code("0")

IsUpper(c) == Code(c) >= Code("A") /\ Code(c) <= Code("Z")

\* strings.ToLower on one character, and on a string
LowerChar(c) == IF IsUpper(c) THEN Chars[Code(c) + (Code("a") - Code("A"))] ELSE c

ToLower(s) == [i \in 1..Len(s) |-> LowerChar(s[i])]

\* memcmp order of two strings (SQLite BINARY collation): a proper prefix is
\* smaller
RECURSIVE TextLess(_, _)
TextLess(a, b) ==
  IF b = <<>> THEN FALSE
  ELSE IF a = <<>> THEN TRUE
  ELSE IF Code(Head(a)) # Code(Head(b)) THEN Code(Head(a)) < Code(Head(b))
  ELSE TextLess(Tail(a), Tail(b))

\* fmt.Sprintf("%d", n)
RECURSIVE Itoa(_)
Itoa(n) ==
  IF n < 0 THEN <<"-">> \o Itoa(0 - n)
  ELSE IF n < 10 THEN <<DigitChars[n + 1]>>
  ELSE Itoa(n \div 10) \o <<DigitChars[(n % 10) + 1]>>

RECURSIVE DigitsVal(_)
DigitsVal(s) ==
  IF s = <<>> THEN 0
  ELSE 10 * DigitsVal(SubSeq(s, 1, Len(s) - 1)) + DigitVal(s[Len(s)])

AllDigits(s) == s # <<>> /\ \A i \in 1..Len(s) : IsDigit(s[i])

\* strconv.Atoi: an optional sign and at least one decimal digit
Atoi(s) ==
  IF s # <<>> /\ s[1] \in {"+", "-"}
  THEN IF AllDigits(Tail(s))
       THEN [ok |-> TRUE,
             val |-> IF s[1] = "-" THEN 0 - DigitsVal(Tail(s)) ELSE DigitsVal(Tail(s))]
       ELSE [ok |-> FALSE, val |-> 0]
  ELSE IF AllDigits(s) THEN [ok |-> TRUE, val |-> DigitsVal(s)]
  ELSE [ok |-> FALSE, val |-> 0]

EmptyStr == <<>>

-----------------------------------------------------------------------------
(* Page options                                                            *)

Ascending == <<"a", "s", "c", "e", "n", "d", "i", "n", "g">>
Descending == <<"d", "e", "s", "c", "e", "n", "d", "i", "n", "g">>

DefaultLimit == 10

DefaultOptions == [limit |-> DefaultLimit, cursor |-> EmptyStr, order |-> Descending]

\* url.Values.Get gives "" for an absent key, so a raw request is three strings
ParseLimit(raw) ==
  IF raw.limit # EmptyStr /\ Atoi(raw.limit).ok THEN Atoi(raw.limit).val
  ELSE DefaultOptions.limit

\* the order option compared without strings.ToLower
ParseOrderCaseSensitive(raw) ==
  IF raw.order = Descending THEN Descending
  ELSE IF raw.order = Ascending THEN Ascending
  ELSE DefaultOptions.order

ParseOrder(raw) ==
  IF raw.order # EmptyStr /\ ToLower(raw.order) = Descending THEN Descending
  ELSE IF raw.order # EmptyStr /\ ToLower(raw.order) = Ascending THEN Ascending
  ELSE DefaultOptions.order

ParseOptions(raw) ==
  [limit |-> ParseLimit(raw), cursor |-> raw.cursor, order |-> ParseOrder(raw)]

-----------------------------------------------------------------------------
(* The store: the rows of the feeds and articles tables, by rowid          *)

maxPublishedDate == <<"9", "9", "9", "9", "9", "9", "9", "9", "9", "9">>
maxFeedID == <<"9", "9", "9", "9", "9", "9", "9", "9", "9", "9">>

FeedIDs == 1..Len(feeds)
ArticleIDs == 1..Len(articles)

Min(a, b) == IF a < b THEN a ELSE b

Range(s) == {s[i] : i \in 1..Len(s)}

\* Feed.GetPaginationField: the id column scanned into a string
FeedKey(id) == Itoa(id)

\* Article.GetPaginationField: the published column (TEXT) scanned into
\* PublishedUnix and printed with %d
ArticleKey(id) == Itoa(Atoi(articles[id].published).val)

RECURSIVE StripZeros(_)
StripZeros(s) == IF Len(s) > 1 /\ Head(s) = "0" THEN StripZeros(Tail(s)) ELSE s

\* numeric order of two unsigned decimal strings
NumLess(a, b) ==
  LET x == StripZeros(a)
      y == StripZeros(b)
  IN  Len(x) < Len(y) \/ (Len(x) = Len(y) /\ TextLess(x, y))

\* "id < ?" and "id > ?" with a text parameter: the INTEGER column gives the
\* parameter numeric affinity; a parameter that is no number stays TEXT, and
\* every INTEGER sorts before every TEXT
FeedIdLess(id, param) == IF AllDigits(param) THEN NumLess(Itoa(id), param) ELSE TRUE
FeedIdGreater(id, param) == IF AllDigits(param) THEN NumLess(param, Itoa(id)) ELSE FALSE

\* "published < ?" and "published > ?": the published column is declared
\* TEXT, so both sides compare as text
PublishedLessOrEqual(id, param) == ~TextLess(param, articles[id].published)
PublishedLess(id, param) == TextLess(articles[id].published, param)
PublishedGreater(id, param) == TextLess(param, articles[id].published)

\* the WHERE predicate each article listing puts in both of its queries
ArticleFilter(kind, id) ==
  CASE kind = "articles" -> ~articles[id].read
    [] kind = "unread" -> ~articles[id].read
    [] kind = "read" -> articles[id].read
    [] kind = "favorited" -> articles[id].favorited

\* the order relation of the ORDER BY column on a set of rows
FeedOrder == {p \in FeedIDs \X FeedIDs : p[1] < p[2]}
ArticleOrder ==
  {p \in ArticleIDs \X ArticleIDs :
     TextLess(articles[p[1]].published, articles[p[2]].published)}

\* LIMIT n: a negative n is no limit
SqlLimit(n, count) == IF n < 0 THEN count ELSE Min(n, count)

\* ORDER BY ... DESC LIMIT m over the rows S: every sequence SQLite may
\* return (rows with equal keys come in any order)
RECURSIVE TopSeqs(_, _, _)
TopSeqs(S, m, lt) ==
  IF m = 0 \/ S = {} THEN {<<>>}
  ELSE UNION {{<<x>> \o t : t \in TopSeqs(S \ {x}, m - 1, lt)} :
                x \in {y \in S : \A z \in S : <<y, z>> \notin lt}}

\* ORDER BY ... ASC LIMIT m
RECURSIVE BottomSeqs(_, _, _)
BottomSeqs(S, m, lt) ==
  IF m = 0 \/ S = {} THEN {<<>>}
  ELSE UNION {{<<x>> \o t : t \in BottomSeqs(S \ {x}, m - 1, lt)} :
                x \in {y \in S : \A z \in S : <<z, y>> \notin lt}}

\* the row limit without the lookahead row
QueryLimitNoLookahead(opts) == opts.limit

\* the row limit both queries of a listing are built with
QueryLimit(opts) == opts.limit + 1

\* the rows the forward query's WHERE clause matches
ForwardRows(kind, cursor) ==
  IF kind = "feeds"
  THEN LET nextPagination == IF cursor = EmptyStr THEN maxFeedID ELSE cursor
       IN  {id \in FeedIDs : FeedIdLess(id, nextPagination)}
  ELSE LET nextPagination == IF cursor = EmptyStr THEN maxPublishedDate ELSE cursor
       IN  {id \in ArticleIDs : ArticleFilter(kind, id) /\ PublishedLess(id, nextPagination)}

\* the backward rows of a query that leaves the filter out
BackwardRowsUnfiltered(kind, cursor) ==
  IF kind = "feeds"
  THEN {id \in FeedIDs : FeedIdGreater(id, cursor)}
  ELSE {id \in ArticleIDs : PublishedGreater(id, cursor)}

\* the rows the backward query's WHERE clause matches (the cursor is passed
\* as it came, also when it is empty)
BackwardRows(kind, cursor) ==
  IF kind = "feeds"
  THEN {id \in FeedIDs : FeedIdGreater(id, cursor)}
  ELSE {id \in ArticleIDs : ArticleFilter(kind, id) /\ PublishedGreater(id, cursor)}

OrderOf(kind) == IF kind = "feeds" THEN FeedOrder ELSE ArticleOrder

\* nextQuery: ... WHERE key < ? ORDER BY key DESC LIMIT limit+1
ForwardWindows(kind, opts) ==
  LET S == ForwardRows(kind, opts.cursor)
  IN  TopSeqs(S, SqlLimit(QueryLimit(opts), Cardinality(S)), OrderOf(kind))

\* prevQuery: SELECT * FROM (... WHERE key > ? ORDER BY key ASC LIMIT limit+1)
\* ORDER BY key DESC
BackwardWindows(kind, opts) ==
  LET S == BackwardRows(kind, opts.cursor)
      inner == BottomSeqs(S, SqlLimit(QueryLimit(opts), Cardinality(S)), OrderOf(kind))
  IN  UNION {TopSeqs(Range(w), Len(w), OrderOf(kind)) : w \in inner}

-----------------------------------------------------------------------------
(* getPagination                                                           *)

ZeroCursor == [next |-> EmptyStr, prev |-> EmptyStr, hasNext |-> FALSE, hasPrev |-> FALSE]

\* the index expressions that run out of range
PaginationPanics(next, prev, limit) ==
  \/ Len(next) = limit + 1 /\ Len(next) - 1 - 1 < 0
  \/ Len(prev) = limit /\ 1 >= Len(prev)

\* CursorItem.GetPaginationField, by the type of the item
GetPaginationField(item) ==
  IF item.type = "feed" THEN FeedKey(item.id) ELSE ArticleKey(item.id)

\* getPagination without the cut of the lookahead row
GetPaginationUntrimmed(next, prev, limit, maximumPaginatedValue) ==
  LET maxLimit == limit + 1
  IN  IF PaginationPanics(next, prev, limit)
      THEN [panic |-> TRUE, items |-> <<>>, cursor |-> ZeroCursor]
      ELSE [panic |-> FALSE, items |-> next,
            cursor |-> [ZeroCursor EXCEPT !.hasNext = Len(next) = maxLimit]]

\* getPagination with the key of the second backward row where the sentinel
\* belongs
GetPaginationNoSentinel(next, prev, limit, maximumPaginatedValue) ==
  LET maxLimit == limit + 1
      hasNext == Len(next) = maxLimit
      nextCursor ==
        IF Len(next) = maxLimit THEN GetPaginationField(next[Len(next) - 1])
        ELSE IF Len(next) > 1 /\ Len(next) <= limit - 1
             THEN GetPaginationField(next[Len(next)])
        ELSE EmptyStr
      hasPrev == Len(prev) = limit \/ (Len(prev) > 1 /\ Len(prev) <= limit - 1)
      prevCursor ==
        IF Len(prev) > 1 /\ Len(prev) <= limit THEN GetPaginationField(prev[2])
        ELSE EmptyStr
      page == IF Len(next) = maxLimit THEN SubSeq(next, 1, limit) ELSE next
  IN  IF PaginationPanics(next, prev, limit)
      THEN [panic |-> TRUE, items |-> <<>>, cursor |-> ZeroCursor]
      ELSE [panic |-> FALSE, items |-> page,
            cursor |-> [next |-> nextCursor, prev |-> prevCursor,
                        hasNext |-> hasNext, hasPrev |-> hasPrev]]

\* getPagination with a prev token also for a backward window of more than
\* limit rows
GetPaginationPrevAtFull(next, prev, limit, maximumPaginatedValue) ==
  LET maxLimit == limit + 1
      hasNext == Len(next) = maxLimit
      nextCursor ==
        IF Len(next) = maxLimit THEN GetPaginationField(next[Len(next) - 1])
        ELSE IF Len(next) > 1 /\ Len(next) <= limit - 1
             THEN GetPaginationField(next[Len(next)])
        ELSE EmptyStr
      hasPrev == Len(prev) >= limit \/ (Len(prev) > 1 /\ Len(prev) <= limit - 1)
      prevCursor ==
        IF Len(prev) > 1 /\ Len(prev) <= limit - 1 THEN maximumPaginatedValue
        ELSE IF Len(prev) >= limit /\ Len(prev) >= 2 THEN GetPaginationField(prev[2])
        ELSE EmptyStr
      page == IF Len(next) = maxLimit THEN SubSeq(next, 1, limit) ELSE next
  IN  IF PaginationPanics(next, prev, limit)
      THEN [panic |-> TRUE, items |-> <<>>, cursor |-> ZeroCursor]
      ELSE [panic |-> FALSE, items |-> page,
            cursor |-> [next |-> nextCursor, prev |-> prevCursor,
                        hasNext |-> hasNext, hasPrev |-> hasPrev]]

\* getPagination with the prev token taken from the first backward row
GetPaginationPrevFirst(next, prev, limit, maximumPaginatedValue) ==
  LET maxLimit == limit + 1
      hasNext == Len(next) = maxLimit
      nextCursor ==
        IF Len(next) = maxLimit THEN GetPaginationField(next[Len(next) - 1])
        ELSE IF Len(next) > 1 /\ Len(next) <= limit - 1
             THEN GetPaginationField(next[Len(next)])
        ELSE EmptyStr
      hasPrev == Len(prev) = limit \/ (Len(prev) > 1 /\ Len(prev) <= limit - 1)
      prevCursor ==
        IF Len(prev) > 1 /\ Len(prev) <= limit - 1 THEN maximumPaginatedValue
        ELSE IF Len(prev) = limit THEN GetPaginationField(prev[1])
        ELSE EmptyStr
      page == IF Len(next) = maxLimit THEN SubSeq(next, 1, limit) ELSE next
  IN  IF PaginationPanics(next, prev, limit)
      THEN [panic |-> TRUE, items |-> <<>>, cursor |-> ZeroCursor]
      ELSE [panic |-> FALSE, items |-> page,
            cursor |-> [next |-> nextCursor, prev |-> prevCursor,
                        hasNext |-> hasNext, hasPrev |-> hasPrev]]

GetPagination(next, prev, limit, maximumPaginatedValue) ==
  LET maxLimit == limit + 1
      hasNext == Len(next) = maxLimit
      nextCursor ==
        IF Len(next) = maxLimit THEN GetPaginationField(next[Len(next) - 1])
        ELSE IF Len(next) > 1 /\ Len(next) <= limit - 1
             THEN GetPaginationField(next[Len(next)])
        ELSE EmptyStr
      hasPrev == Len(prev) = limit \/ (Len(prev) > 1 /\ Len(prev) <= limit - 1)
      prevCursor ==
        IF Len(prev) > 1 /\ Len(prev) <= limit - 1 THEN maximumPaginatedValue
        ELSE IF Len(prev) = limit THEN GetPaginationField(prev[2])
        ELSE EmptyStr
      page == IF Len(next) = maxLimit THEN SubSeq(next, 1, limit) ELSE next
  IN  IF PaginationPanics(next, prev, limit)
      THEN [panic |-> TRUE, items |-> <<>>, cursor |-> ZeroCursor]
      ELSE [panic |-> FALSE, items |-> page,
            cursor |-> [next |-> nextCursor, prev |-> prevCursor,
                        hasNext |-> hasNext, hasPrev |-> hasPrev]]

\* the rows of a window as the items getPagination takes, and back
AsItems(type, ids) == [i \in 1..Len(ids) |-> [type |-> type, id |-> ids[i]]]
ItemIds(items) == [i \in 1..Len(items) |-> items[i].id]

-----------------------------------------------------------------------------
(* State                                                                    *)
(*  feeds, articles : the rows of the two tables, in rowid order            *)
(*  req   : the listing call in progress (its forward query has run, its    *)
(*          backward query has not)                                         *)
(*  resp  : what the last listing call returned                             *)
(*  trav  : a client that follows the tokens of the pages it gets           *)
(*  db    : the database handle of the store, "nil" until Connect sets it   *)
(*  calls : the listing calls that are followed statement by statement      *)
(*  poller  : the background poller                                         *)
(*  refresh : the last calls of RefreshFeed                                 *)

ListKinds == {"feeds", "articles", "read", "unread", "favorited"}

RawRequest(limit, cursor, order) == [limit |-> limit, cursor |-> cursor, order |-> order]

NoReq ==
  [pc |-> "idle", kind |-> "feeds", raw |-> RawRequest(EmptyStr, EmptyStr, EmptyStr),
   opts |-> DefaultOptions, next |-> <<>>, seen |-> {}, writes |-> 0]

NoResp ==
  [status |-> "none", kind |-> "feeds", opts |-> DefaultOptions, items |-> <<>>,
   cursor |-> ZeroCursor, next |-> <<>>, prev |-> <<>>, seen |-> {}, writes |-> 0]

NoTrav ==
  [status |-> "off", kind |-> "feeds", limit |-> EmptyStr, visited |-> <<>>,
   start |-> {}, pages |-> 0, writes |-> 0, page |-> NoResp]

\* the requests whose listing calls are followed statement by statement
Callers == {1, 2}

\* a call: where it stands, its context and its connection to the store, the
\* rows its open result set still holds, the rows it has read, whether a read
\* loop ended with rows unread, the queries it has issued, whether another
\* call ran meanwhile, and what it returned
NoCall ==
  [pc |-> "idle", kind |-> "feeds", opts |-> DefaultOptions, ctx |-> "live",
   store |-> "ok", pending |-> <<>>, next |-> <<>>, prev |-> <<>>,
   cutNext |-> FALSE, cutPrev |-> FALSE, queries |-> 0, overlapped |-> FALSE,
   status |-> "none", err |-> "none", items |-> <<>>, cursor |-> ZeroCursor,
   http |-> 0]

NoCalls == [i \in Callers |-> NoCall]

\* the poller: where Poll stands, its context, the ticks it has served, and
\* for the tick under way or last served: the number of feeds stored when
\* it listed them, the feeds ListFeeds returned, those still to refresh,
\* those RefreshFeed was called for and those it failed for; the first tick
\* with a failed refresh; the error Poll returned
NoPoller ==
  [pc |-> "wait", ctx |-> "live", ticks |-> 0, stored |-> 0, page |-> <<>>,
   todo |-> <<>>, refreshed |-> <<>>, failed |-> {}, failedTick |-> 0,
   err |-> "none"]

\* a feed document as ParseFromURI delivers it: fetched and parsed or not,
\* and its items
NoDoc == [ok |-> FALSE, items |-> <<>>]

\* the RefreshFeed calls: how many there were, and for the last one its feed,
\* its document, the articles stored before it, what it returned, and the
\* feed, document and error of the call before it
NoRefresh ==
  [calls |-> 0, feed |-> 0, doc |-> NoDoc, before |-> <<>>, returned |-> <<>>,
   err |-> FALSE, prev |-> [calls |-> 0, feed |-> 0, doc |-> NoDoc, err |-> FALSE]]

\* the rows of a listing's collection, whatever the cursor
Collection(kind) ==
  IF kind = "feeds" THEN FeedIDs ELSE {id \in ArticleIDs : ArticleFilter(kind, id)}

\* a database file is empty, or holds what an earlier run left: one feed and
\* one article of it, read or favorited or both
SeedArticle(r, f) ==
  [feed |-> 1, link |-> <<1, 1>>, published |-> Itoa(10), read |-> r, favorited |-> f]

Init ==
  /\ \/ feeds = <<>> /\ articles = <<>>
     \/ /\ feeds = <<[site |-> 1]>>
        /\ \E r \in BOOLEAN, f \in BOOLEAN :
             (r \/ f) /\ articles = <<SeedArticle(r, f)>>
  /\ req = NoReq
  /\ resp = NoResp
  /\ trav = NoTrav
  /\ db = "open"
  /\ calls = NoCalls
  /\ poller = NoPoller
  /\ refresh = NoRefresh

\* a write to a table is seen by the calls and the traversal that read it
Touched(kind, table) == (kind = "feeds") = (table = "feeds")

NoteWrite(table) ==
  /\ req' = IF req.pc # "idle" /\ Touched(req.kind, table)
            THEN [req EXCEPT !.writes = @ + 1] ELSE req
  /\ resp' = IF resp.status # "none" /\ Touched(resp.kind, table)
             THEN [resp EXCEPT !.writes = @ + 1] ELSE resp
  /\ trav' = IF trav.status = "run" /\ Touched(trav.kind, table)
             THEN [trav EXCEPT !.writes = @ + 1] ELSE trav

\* CreateFeed: site 0 stands for an empty rssLink; rssLink and siteLink are
\* UNIQUE
CreateFeed(site, titled) ==
  /\ Len(feeds) < MaxFeeds
  /\ IF site = 0 \/ ~titled \/ (\E i \in FeedIDs : feeds[i].site = site)
     THEN UNCHANGED <<feeds, req, resp, trav>>
     ELSE feeds' = Append(feeds, [site |-> site]) /\ NoteWrite("feeds")
  /\ UNCHANGED <<articles, db, calls, poller, refresh>>

\* CreateArticle: the link is <<site, path>>; the feed is found by the site
\* of the link; link is UNIQUE; a new article is unread and not favorited
CreateArticle(site, path, titled, authored, published) ==
  /\ Len(articles) < MaxArticles
  /\ IF \/ site = 0 \/ ~titled \/ ~authored
        \/ ~(\E i \in FeedIDs : feeds[i].site = site)
        \/ (\E i \in ArticleIDs : articles[i].link = <<site, path>>)
     THEN UNCHANGED <<articles, req, resp, trav>>
     ELSE /\ articles' = Append(articles,
                 [feed |-> CHOOSE i \in FeedIDs : feeds[i].site = site,
                  link |-> <<site, path>>, published |-> Itoa(published),
                  read |-> FALSE, favorited |-> FALSE])
          /\ NoteWrite("articles")
  /\ UNCHANGED <<feeds, db, calls, poller, refresh>>

\* the first half of a listing: the options, the forward query, its rows
ListBegin(kind, raw) ==
  /\ req.pc = "idle"
  /\ LET opts == ParseOptions(raw)
     IN  \E w \in ForwardWindows(kind, opts) :
           req' = [pc |-> "fwd", kind |-> kind, raw |-> raw, opts |-> opts,
                   next |-> w, seen |-> ForwardRows(kind, opts.cursor),
                   writes |-> 0]
  /\ resp' = NoResp
  /\ UNCHANGED <<feeds, articles, db, calls, poller, refresh>>

\* what the call returns once the backward rows p are read
ListResult(r, p) ==
  LET base == [status |-> "ok", kind |-> r.kind, opts |-> r.opts, items |-> <<>>,
               cursor |-> ZeroCursor, next |-> r.next, prev |-> p,
               seen |-> r.seen, writes |-> r.writes]
      type == IF r.kind = "feeds" THEN "feed" ELSE "article"
      g == GetPagination(AsItems(type, r.next), AsItems(type, p), r.opts.limit,
                         IF r.kind = "feeds" THEN maxFeedID ELSE maxPublishedDate)
  IN  \* doFeedQueries scans every backward row from the forward rows, which
      \* are closed by then
      IF r.kind = "feeds" /\ p # <<>> THEN [base EXCEPT !.status = "error"]
      ELSE IF g.panic THEN [base EXCEPT !.status = "panic"]
      ELSE [base EXCEPT !.items = ItemIds(g.items), !.cursor = g.cursor]

\* the second half of a listing: the backward query, getPagination, return
ListFinish ==
  /\ req.pc = "fwd"
  /\ \E p \in BackwardWindows(req.kind, req.opts) : resp' = ListResult(req, p)
  /\ req' = NoReq
  /\ UNCHANGED <<feeds, articles, db, calls, poller, refresh>>

-----------------------------------------------------------------------------
(* Spec: a listing call with any options against a store that other        *)
(* requests have built up and write to while the call is under way         *)

Limits == {<<"1">>, <<"2">>, <<"3">>, EmptyStr}

\* the cursors a client sends: none, the sentinel, a key of the collection
CursorsOf(kind) ==
  {EmptyStr, maxPublishedDate}
    \cup (IF kind = "feeds" THEN {Itoa(i) : i \in 1..2} ELSE {Itoa(p) : p \in {10, 11}})

\* other requests write before the first call and while a call reads the
\* table they write to
MayWrite(table) ==
  IF trav.status = "off"
  THEN /\ resp.status = "none"
       /\ (req.pc = "idle" \/ (Touched(req.kind, table) /\ req.writes < MaxRaceWrites))
  ELSE /\ trav.status = "run"
       /\ Touched(trav.kind, table)
       /\ trav.writes < MaxRaceWrites

\* feeds are posted before the first article is, articles under the first feed
PostFeed ==
  /\ MayWrite("feeds")
  /\ articles = <<>>
  /\ \E site \in 0..(Len(feeds) + 1), titled \in BOOLEAN : CreateFeed(site, titled)

PostArticle ==
  /\ MayWrite("articles")
  /\ Len(feeds) = 1
  /\ \E path \in 1..(Len(articles) + 1), ok \in BOOLEAN, p \in PubTimes :
       CreateArticle(1, path, ok, ok, p)

GetList ==
  /\ resp.status = "none"
  /\ \E kind \in ListKinds, l \in Limits :
       \E c \in CursorsOf(kind) : ListBegin(kind, RawRequest(l, c, EmptyStr))
  /\ UNCHANGED trav

Return == ListFinish /\ UNCHANGED trav

Next == PostFeed \/ PostArticle \/ GetList \/ Return

Spec == Init /\ [][Next]_vars

-----------------------------------------------------------------------------
(* Properties of one listing call                                          *)

\* the pagination key of a row of the page of a response
KeyOf(kind, id) == IF kind = "feeds" THEN FeedKey(id) ELSE ArticleKey(id)

\* C1: a page that a listing returns for a limit L >= 1 holds at most L
\* items, whatever the listing, the cursor and the store.
C1_PageWithinLimit ==
  (resp.status \in {"ok", "error"} /\ resp.opts.limit >= 1)
    => Len(resp.items) <= resp.opts.limit

\* a call whose forward query read the lookahead row and whose page is full
C1_Witness ==
  /\ resp.status = "ok"
  /\ resp.opts.limit >= 1
  /\ Len(resp.next) = resp.opts.limit + 1
  /\ Len(resp.items) = resp.opts.limit

\* C5: a page returned with hasNext = false holds every row that matched the
\* forward query when it ran.
C5_NoNextHoldsAllSeen ==
  (resp.status = "ok" /\ ~resp.cursor.hasNext) => resp.seen \subseteq Range(resp.items)

\* a last page that is exactly full, returned after a write raced the call
C5_Witness ==
  /\ resp.status = "ok"
  /\ ~resp.cursor.hasNext
  /\ resp.opts.limit >= 2
  /\ Cardinality(resp.seen) = resp.opts.limit
  /\ resp.writes > 0

\* C6: a call with an empty cursor and a limit L >= 1 returns hasPrev = false
\* and prev = "", for feeds and for articles, whatever the collection holds.
C6_FirstPageHasNoPrev ==
  (resp.status = "ok" /\ resp.opts.cursor = EmptyStr /\ resp.opts.limit >= 1)
    => (~resp.cursor.hasPrev /\ resp.cursor.prev = EmptyStr)

\* the filtered article listings
FilteredKinds == {"read", "unread", "favorited"}

\* C22: the filter of a listing is in both of its queries: every article of
\* a page of ListReadArticles is read, of ListUnreadArticles unread, of
\* ListFavoritedArticles favorited, and the backward window from which
\* hasPrev and prev are computed holds only articles that pass the same
\* filter as the forward window.
C22_FilterInBothQueries ==
  (resp.status # "none" /\ resp.kind \in FilteredKinds)
    => /\ \A id \in Range(resp.items) : ArticleFilter(resp.kind, id)
       /\ \A id \in Range(resp.next) : ArticleFilter(resp.kind, id)
       /\ \A id \in Range(resp.prev) : ArticleFilter(resp.kind, id)

\* a filtered listing returned a page, its backward window was not empty, and
\* an article that fails the filter lay behind the cursor with it
C22_Witness ==
  /\ resp.status = "ok"
  /\ resp.kind \in FilteredKinds
  /\ resp.items # <<>>
  /\ resp.prev # <<>>
  /\ \E id \in ArticleIDs :
       ~ArticleFilter(resp.kind, id) /\ PublishedGreater(id, resp.opts.cursor)

-----------------------------------------------------------------------------
(* SpecParse: GET /api/feeds and GET /api/articles with any query string,   *)
(* against a store of two feeds and three unread articles                  *)

RawLimits ==
  {EmptyStr, <<"1">>, <<"2">>, <<"0">>, <<"-", "1">>, <<"-", "2">>, <<"+", "2">>,
   <<"0", "2">>, <<"x">>, <<"2", "x">>, <<"-">>}

RawCursors == {EmptyStr, <<"1", "0">>, <<"x">>}

RawOrders ==
  {EmptyStr, Ascending, Descending,
   <<"A", "S", "C", "E", "N", "D", "I", "N", "G">>,
   <<"A", "s", "c", "e", "n", "d", "i", "n", "g">>,
   <<"D", "E", "S", "C", "E", "N", "D", "I", "N", "G">>,
   <<"a", "s", "c">>, <<"d", "o", "w", "n">>}

HttpKinds == {"feeds", "articles"}

PostedArticle(path, published) ==
  [feed |-> 1, link |-> <<1, path>>, published |-> Itoa(published),
   read |-> FALSE, favorited |-> FALSE]

InitParse ==
  /\ feeds = <<[site |-> 1], [site |-> 2]>>
  /\ articles = <<PostedArticle(1, 10), PostedArticle(2, 11), PostedArticle(3, 9)>>
  /\ req = NoReq
  /\ resp = NoResp
  /\ trav = NoTrav
  /\ db = "open"
  /\ calls = NoCalls
  /\ poller = NoPoller
  /\ refresh = NoRefresh

\* OptionsMiddleware and the handler behind it: the query string is parsed
\* and the listing is called with the options
ServeList ==
  /\ \E kind \in HttpKinds, l \in RawLimits, c \in RawCursors, o \in RawOrders :
       ListBegin(kind, RawRequest(l, c, o))
  /\ UNCHANGED trav

NextParse == ServeList \/ Return

SpecParse == InitParse /\ [][NextParse]_vars

\* the order of the ORDER BY column between two rows of a collection
RowBefore(kind, a, b) == <<a, b>> \in OrderOf(kind)

\* C8: with an empty cursor, order Descending gives the rows with the largest
\* keys in descending order, order Ascending those with the smallest keys in
\* ascending order.
C8_OrderDecidesDirection ==
  (resp.status = "ok" /\ resp.opts.cursor = EmptyStr /\ resp.opts.limit >= 1)
    => LET page == resp.items
           rest == Collection(resp.kind) \ Range(page)
       IN  IF resp.opts.order = Ascending
           THEN /\ \A i, j \in 1..Len(page) : i < j => ~RowBefore(resp.kind, page[j], page[i])
                /\ \A x \in rest : \A i \in 1..Len(page) : ~RowBefore(resp.kind, x, page[i])
           ELSE /\ \A i, j \in 1..Len(page) : i < j => ~RowBefore(resp.kind, page[i], page[j])
                /\ \A x \in rest : \A i \in 1..Len(page) : ~RowBefore(resp.kind, page[i], x)

\* what the claim says ParseOptions makes of a raw request
C9_Expected(raw) ==
  [limit |-> IF Atoi(raw.limit).ok THEN Atoi(raw.limit).val ELSE 10,
   cursor |-> raw.cursor,
   order |-> IF ToLower(raw.order) = Ascending THEN Ascending ELSE Descending]

\* C9: every raw request is parsed, none is refused: a limit that is absent
\* or no number gives 10, an absent or unknown order gives Descending, and a
\* numeric limit, a known order in any letter case and any cursor are taken
\* as given.
C9_LenientParse ==
  (req.pc = "fwd") => (req.opts = C9_Expected(req.raw))

\* a call made with a limit that is no number and an order in capitals
C9_Witness ==
  /\ req.pc = "fwd"
  /\ req.raw.limit = <<"2", "x">>
  /\ req.raw.order = <<"A", "S", "C", "E", "N", "D", "I", "N", "G">>
  /\ req.opts.limit = 10
  /\ req.opts.order = Ascending

\* C10: the options of every listing call have a limit >= 1.
C10_LimitPositive ==
  (req.pc = "fwd") => (req.opts.limit >= 1)

-----------------------------------------------------------------------------
(* SpecTraverse: a client pages through the feeds or the articles from the *)
(* empty cursor, following the next token of every page, while other       *)
(* requests post feeds and articles                                        *)

TravLimits == {<<"1">>, <<"2">>, <<"3">>}

\* a traversal ends within as many pages as there are rows to visit
MaxPages == MaxArticles + MaxRaceWrites + 1

\* the first request of a traversal: no cursor
TravStart ==
  /\ trav.status = "off"
  /\ resp.status = "none"
  /\ \E kind \in HttpKinds, l \in TravLimits :
       /\ ListBegin(kind, RawRequest(l, EmptyStr, EmptyStr))
       /\ trav' = [NoTrav EXCEPT !.status = "run", !.kind = kind, !.limit = l,
                                 !.start = Collection(kind)]

\* a request of the traversal returns: the client keeps the page, and goes on
\* while hasNext is true
TravReturn ==
  /\ trav.status \in {"run", "past"}
  /\ ListFinish
  /\ trav' = IF trav.status = "past" THEN trav
             ELSE IF resp'.status # "ok" THEN [trav EXCEPT !.status = "failed"]
             ELSE [trav EXCEPT !.visited = @ \o resp'.items,
                               !.pages = @ + 1,
                               !.status = IF resp'.cursor.hasNext THEN "run" ELSE "done"]

\* the next request: the cursor is the next token of the page before
TravNext ==
  /\ trav.status = "run"
  /\ resp.status = "ok"
  /\ trav.pages < MaxPages
  /\ ListBegin(trav.kind, RawRequest(trav.limit, resp.cursor.next, EmptyStr))
  /\ UNCHANGED trav

\* a last page may carry a next token too: the client asks for what is past it
TravPast ==
  /\ trav.status = "done"
  /\ resp.status = "ok"
  /\ resp.cursor.next # EmptyStr
  /\ ListBegin(trav.kind, RawRequest(trav.limit, resp.cursor.next, EmptyStr))
  /\ trav' = [trav EXCEPT !.status = "past"]

NextTraverse == PostFeed \/ PostArticle \/ TravStart \/ TravReturn \/ TravNext \/ TravPast

SpecTraverse == Init /\ [][NextTraverse]_vars

\* the rows of a sequence come in the ORDER BY ... DESC order of their listing
InPrimaryOrder(kind, ids) ==
  \A i, j \in 1..Len(ids) : i < j => ~RowBefore(kind, ids[i], ids[j])

NoDuplicates(ids) == \A i, j \in 1..Len(ids) : ids[i] = ids[j] => i = j

\* C2: a traversal with a limit L > 0 of a non-empty collection that is not
\* written to meanwhile ends with hasNext = false, having visited every row
\* of the collection once, in the primary order.
C2_TraversalVisitsAllOnce ==
  (trav.status \in {"done", "failed"} /\ trav.writes = 0 /\ trav.start # {})
    => /\ trav.status = "done"
       /\ Range(trav.visited) = Collection(trav.kind)
       /\ NoDuplicates(trav.visited)
       /\ InPrimaryOrder(trav.kind, trav.visited)

\* C3: a traversal during which other requests insert rows returns no row on
\* two pages and has returned every row stored at its start when it ends
\* with hasNext = false.
C3_InsertsNeitherSkipNorDuplicate ==
  (trav.status = "done" /\ trav.writes > 0)
    => (NoDuplicates(trav.visited) /\ trav.start \subseteq Range(trav.visited))

\* C4: a request whose cursor is the next token of a page returns only rows
\* that come strictly after the rows with that key in the primary order, and
\* no row whose key is the token.
C4_NextTokenStrictlyBeyond ==
  (trav.status # "off" /\ resp.status = "ok" /\ resp.opts.cursor # EmptyStr)
    => \A i \in 1..Len(resp.items) :
         /\ KeyOf(resp.kind, resp.items[i]) # resp.opts.cursor
         /\ \A b \in Collection(resp.kind) :
              KeyOf(resp.kind, b) = resp.opts.cursor => RowBefore(resp.kind, resp.items[i], b)

\* a second or later page of articles that is not empty, the row of its
\* cursor still stored
C4_Witness ==
  /\ trav.status \in {"run", "done"}
  /\ trav.pages >= 2
  /\ resp.status = "ok"
  /\ resp.kind = "articles"
  /\ resp.items # <<>>
  /\ \E b \in Collection(resp.kind) : KeyOf(resp.kind, b) = resp.opts.cursor

-----------------------------------------------------------------------------
(* SpecBack: a client gets a page of a store of two feeds and four         *)
(* articles that nobody writes to, and follows its prev token              *)

BackTimes == {8, 9, 10, 11}

BackCursors == {EmptyStr, maxPublishedDate} \cup {Itoa(p) : p \in BackTimes}

InitBack ==
  /\ feeds = <<[site |-> 1], [site |-> 2]>>
  /\ \E p1 \in BackTimes, p2 \in BackTimes, p3 \in BackTimes, p4 \in BackTimes :
       articles = <<PostedArticle(1, p1), PostedArticle(2, p2),
                    PostedArticle(3, p3), PostedArticle(4, p4)>>
  /\ req = NoReq
  /\ resp = NoResp
  /\ trav = NoTrav
  /\ db = "open"
  /\ calls = NoCalls
  /\ poller = NoPoller
  /\ refresh = NoRefresh

\* the request for the page P
GetPage ==
  /\ trav.status = "off"
  /\ resp.status = "none"
  /\ \E kind \in HttpKinds, l \in TravLimits, c \in BackCursors :
       ListBegin(kind, RawRequest(l, c, EmptyStr))
  /\ UNCHANGED trav

\* the request with the prev token of P as its cursor, P kept for comparison
GoBack ==
  /\ trav.status = "off"
  /\ resp.status = "ok"
  /\ resp.cursor.hasPrev
  /\ ListBegin(resp.kind, RawRequest(Itoa(resp.opts.limit), resp.cursor.prev, EmptyStr))
  /\ trav' = [NoTrav EXCEPT !.status = "back", !.kind = resp.kind, !.page = resp]

NextBack == GetPage \/ Return \/ GoBack

SpecBack == InitBack /\ [][NextBack]_vars

DistinctKeys(kind) ==
  \A a, b \in Collection(kind) : KeyOf(kind, a) = KeyOf(kind, b) => a = b

\* the rows of ids are the first rows of the listing: no other row of the
\* collection comes before one of them
AreFirstRows(kind, ids, n) ==
  /\ Len(ids) = Min(n, Cardinality(Collection(kind)))
  /\ \A x \in Collection(kind) \ Range(ids) :
       \A i \in 1..Len(ids) : ~RowBefore(kind, ids[i], x)

-----------------------------------------------------------------------------
(* SpecPage: getPagination on its own, applied to every pair of windows    *)
(* that the two queries can deliver from a store of MaxPageLimit feeds and *)
(* MaxPageLimit articles with distinct publish times                       *)

MaxPageLimit == 4

PageLimits == 0..MaxPageLimit

InitPage ==
  /\ feeds = [i \in 1..MaxPageLimit |-> [site |-> i]]
  /\ articles = [i \in 1..MaxPageLimit |-> PostedArticle(i, 7 + i)]
  /\ req = NoReq
  /\ resp = NoResp
  /\ trav = NoTrav
  /\ db = "open"
  /\ calls = NoCalls
  /\ poller = NoPoller
  /\ refresh = NoRefresh

\* the rows S as a query returns them
WindowOf(kind, S) == CHOOSE w \in TopSeqs(S, Cardinality(S), OrderOf(kind)) : TRUE

\* getPagination(next, prev, limit, max) is called and returns, or panics
Paginate ==
  /\ resp.status = "none"
  /\ \E kind \in HttpKinds, limit \in PageLimits :
       \E N \in SUBSET Collection(kind), P \in SUBSET Collection(kind) :
         \* the backward rows lie before the cursor, the forward rows after it
         /\ \A n \in N, b \in P : RowBefore(kind, n, b)
         /\ LET next == WindowOf(kind, N)
                prev == WindowOf(kind, P)
                type == IF kind = "feeds" THEN "feed" ELSE "article"
                g == GetPagination(AsItems(type, next), AsItems(type, prev), limit,
                                   IF kind = "feeds" THEN maxFeedID ELSE maxPublishedDate)
            IN  resp' = [NoResp EXCEPT !.status = IF g.panic THEN "panic" ELSE "ok",
                                       !.kind = kind,
                                       !.opts = [DefaultOptions EXCEPT !.limit = limit],
                                       !.items = ItemIds(g.items),
                                       !.cursor = g.cursor,
                                       !.next = next,
                                       !.prev = prev]
  /\ UNCHANGED <<feeds, articles, req, trav, db, calls, poller, refresh>>

NextPage == Paginate

SpecPage == InitPage /\ [][NextPage]_vars

\* getPagination was called: resp holds its arguments and what came of it
Paginated == resp.status \in {"ok", "panic"}

\* C16: for a limit L >= 1 and a forward window of exactly L+1 rows,
\* getPagination returns hasNext = true, next = the key of the L-th row of
\* the window (the last row of the page), and the first L rows as the page.
C16_FullWindow ==
  (Paginated /\ resp.opts.limit >= 1 /\ Len(resp.next) = resp.opts.limit + 1)
    => /\ resp.status = "ok"
       /\ resp.cursor.hasNext
       /\ resp.cursor.next = KeyOf(resp.kind, resp.next[resp.opts.limit])
       /\ resp.items = SubSeq(resp.next, 1, resp.opts.limit)

\* C17: for a limit L >= 1 and a forward window of at most L rows,
\* getPagination returns the whole window as the page and hasNext = false;
\* next is "" for an empty window, and the key of the last row for a window
\* of more than one and at most L-1 rows.
C17_TerminalWindow ==
  (Paginated /\ resp.opts.limit >= 1 /\ Len(resp.next) <= resp.opts.limit)
    => /\ resp.status = "ok"
       /\ resp.items = resp.next
       /\ ~resp.cursor.hasNext
       /\ (resp.next = <<>> => resp.cursor.next = EmptyStr)
       /\ (Len(resp.next) > 1 /\ Len(resp.next) <= resp.opts.limit - 1
             => resp.cursor.next = KeyOf(resp.kind, resp.next[Len(resp.next)]))

\* C18: for a limit L >= 1 and a backward window of exactly L rows,
\* getPagination returns hasPrev = true and prev = the key of the second row
\* of the backward window.
C18_FullBackwardWindow ==
  (Paginated /\ resp.opts.limit >= 1 /\ Len(resp.prev) = resp.opts.limit)
    => /\ resp.status = "ok"
       /\ resp.cursor.hasPrev
       /\ Len(resp.prev) >= 2
       /\ resp.cursor.prev = KeyOf(resp.kind, resp.prev[2])

\* C19: for a backward window of more than one and at most L-1 rows,
\* getPagination returns hasPrev = true and prev = the sentinel it was given
\* (maxFeedID for feeds, maxPublishedDate for articles).
C19_ShortBackwardWindow ==
  (Paginated /\ Len(resp.prev) > 1 /\ Len(resp.prev) <= resp.opts.limit - 1)
    => /\ resp.status = "ok"
       /\ resp.cursor.hasPrev
       /\ resp.cursor.prev = IF resp.kind = "feeds" THEN maxFeedID ELSE maxPublishedDate

\* a call with limit 3 and two backward rows, and one with limit 4 and three
C19_Witness ==
  /\ resp.status = "ok"
  /\ resp.opts.limit = Len(resp.prev) + 1
  /\ Len(resp.prev) >= 2
  /\ resp.cursor.hasPrev
  /\ resp.cursor.prev = maxPublishedDate

\* C21: for a limit L >= 1 and a backward window of at most one row,
\* getPagination returns hasPrev = false, and prev = "" when the window is
\* empty (as for limit 2, forward rows [3,2,1] and the backward row [5]:
\* page [3,2], hasNext, next = "2", no prev).
C21_NoPrevBelowTwoRows ==
  (Paginated /\ resp.opts.limit >= 1 /\ Len(resp.prev) <= 1)
    => /\ resp.status = "ok"
       /\ ~resp.cursor.hasPrev
       /\ (resp.prev = <<>> => resp.cursor.prev = EmptyStr)
       /\ (resp.opts.limit = 2 /\ Len(resp.next) = 3 /\ Len(resp.prev) = 1
             => /\ resp.items = SubSeq(resp.next, 1, 2)
                /\ resp.cursor.hasNext
                /\ resp.cursor.next = KeyOf(resp.kind, resp.next[2]))

\* C24: for a limit L >= 2 and a backward window of 0 to L+1 rows,
\* getPagination returns hasPrev = true exactly when the window holds 2 to L
\* rows; a window of L+1 rows gives hasPrev = false and prev = "", as an
\* empty one does.
C24_PrevOnlyFromTwoToLimit ==
  (Paginated /\ resp.opts.limit >= 2 /\ Len(resp.prev) <= resp.opts.limit + 1)
    => /\ resp.status = "ok"
       /\ resp.cursor.hasPrev = (Len(resp.prev) >= 2 /\ Len(resp.prev) <= resp.opts.limit)
       /\ (Len(resp.prev) \in {0, resp.opts.limit + 1}
             => ~resp.cursor.hasPrev /\ resp.cursor.prev = EmptyStr)

\* a call whose backward window holds L+1 rows, the most its query returns
C24_Witness ==
  /\ resp.status = "ok"
  /\ resp.opts.limit >= 2
  /\ Len(resp.prev) = resp.opts.limit + 1
  /\ ~resp.cursor.hasPrev
  /\ resp.cursor.prev = EmptyStr

-----------------------------------------------------------------------------
(* The sentinel as a cursor                                                *)

\* everything a listing call with the options opts can return on the store
\* as it is
CallOutcomes(kind, opts) ==
  {ListResult([NoReq EXCEPT !.kind = kind, !.opts = opts, !.next = w], p) :
     w \in ForwardWindows(kind, opts), p \in BackwardWindows(kind, opts)}

\* the part of a result that C20 compares
PageOf(r) ==
  [status |-> r.status, items |-> r.items, next |-> r.cursor.next,
   hasNext |-> r.cursor.hasNext]

SentinelOf(kind) == IF kind = "feeds" THEN maxFeedID ELSE maxPublishedDate

\* C20: on the same store, with the same limit and filter, a request whose
\* cursor is the sentinel and a request with an empty cursor return the same
\* page items, next and hasNext.
C20_SentinelIsFirstPage ==
  (/\ resp.status # "none"
   /\ resp.writes = 0
   /\ resp.opts.cursor \in {EmptyStr, SentinelOf(resp.kind)})
    => LET other == IF resp.opts.cursor = EmptyStr THEN SentinelOf(resp.kind) ELSE EmptyStr
       IN  PageOf(resp) \in
             {PageOf(x) : x \in CallOutcomes(resp.kind, [resp.opts EXCEPT !.cursor = other])}

-----------------------------------------------------------------------------
(* A listing call, statement by statement: the nil check, PrepareContext,  *)
(* QueryContext and the rows.Next loop for the forward window, the same    *)
(* for the backward window, getPagination, and the handler's answer        *)

ErrNilDB == "ErrNilDB"

DbIsNeverNil == FALSE

\* s.db == nil
DbIsNil == db = "nil"

\* the status the handler answers with: 200 with the list, 500 on an error;
\* a panic in the handler closes the connection without an answer
HttpStatus(status) ==
  IF status = "ok" THEN 200 ELSE IF status = "error" THEN 500 ELSE 0

\* return list, err: the list is the empty one made on entry
Failed(c, err) ==
  [c EXCEPT !.pc = "done", !.status = "error", !.err = err, !.pending = <<>>,
            !.http = HttpStatus("error")]

\* what PrepareContext and QueryContext return: the context's error if it is
\* done, the store's error if the store fails
OpError(c) ==
  IF c.ctx = "cancelled" THEN "context"
  ELSE IF c.store = "failing" THEN "store" ELSE "none"

\* a row read into a buffer: the buffer is a local of the call
ReadIntoShared(cs, i, field, row) == [cs EXCEPT ![1][field] = Append(@, row)]

ReadInto(cs, i, field, row) == [cs EXCEPT ![i][field] = Append(@, row)]

\* the articles table after a SELECT has delivered rows of it
ArticlesMarkedRead(kind, rows) ==
  [a \in ArticleIDs |->
     IF kind # "feeds" /\ a \in Range(rows) THEN [articles[a] EXCEPT !.read = TRUE]
     ELSE articles[a]]

ArticlesAfterSelect(kind, rows) == articles

\* entry of ListFeeds, ListArticles, ...: the nil check, the options
CallStart(i, kinds, limits, cursors) ==
  /\ calls[i].pc = "idle"
  /\ \E kind \in kinds, l \in limits, c \in cursors :
       LET busy == {j \in Callers \ {i} : calls[j].pc \notin {"idle", "done"}}
           c0 == [NoCall EXCEPT !.kind = kind,
                                !.opts = ParseOptions(RawRequest(l, c, EmptyStr)),
                                !.overlapped = busy # {}]
       IN  calls' = [j \in Callers |->
                       IF j = i
                       THEN IF DbIsNil THEN Failed(c0, ErrNilDB)
                            ELSE [c0 EXCEPT !.pc = "prepNext"]
                       ELSE IF j \in busy THEN [calls[j] EXCEPT !.overlapped = TRUE]
                       ELSE calls[j]]
  /\ UNCHANGED <<feeds, articles, req, resp, trav, db, poller, refresh>>

\* s.db.PrepareContext(ctx, nextQuery) and s.db.PrepareContext(ctx, prevQuery)
CallPrepare(i) ==
  /\ calls[i].pc \in {"prepNext", "prepPrev"}
  /\ LET c == calls[i]
     IN  calls' = [calls EXCEPT ![i] =
                     IF OpError(c) # "none" THEN Failed(c, OpError(c))
                     ELSE [c EXCEPT !.pc = IF c.pc = "prepNext" THEN "queryNext"
                                           ELSE "queryPrev"]]
  /\ UNCHANGED <<feeds, articles, req, resp, trav, db, poller, refresh>>

\* nextStmt.QueryContext(ctx, nextPagination) and prevStmt.QueryContext(ctx, cursor)
CallQuery(i) ==
  /\ calls[i].pc \in {"queryNext", "queryPrev"}
  /\ LET c == calls[i]
     IN  IF OpError(c) # "none"
         THEN calls' = [calls EXCEPT ![i] = Failed(c, OpError(c))]
         ELSE \E w \in (IF c.pc = "queryNext" THEN ForwardWindows(c.kind, c.opts)
                        ELSE BackwardWindows(c.kind, c.opts)) :
                calls' = [calls EXCEPT ![i] =
                            [c EXCEPT !.pending = w, !.queries = @ + 1,
                                      !.pc = IF c.pc = "queryNext" THEN "readNext"
                                             ELSE "readPrev"]]
  /\ UNCHANGED <<feeds, articles, req, resp, trav, db, poller, refresh>>

\* the call once the backward loop is over: getPagination and the return
Returned(c, cut) ==
  LET type == IF c.kind = "feeds" THEN "feed" ELSE "article"
      g == GetPagination(AsItems(type, c.next), AsItems(type, c.prev), c.opts.limit,
                         SentinelOf(c.kind))
  IN  IF g.panic
      THEN [c EXCEPT !.pc = "done", !.status = "panic", !.pending = <<>>,
                     !.cutPrev = cut, !.http = HttpStatus("panic")]
      ELSE [c EXCEPT !.pc = "done", !.status = "ok", !.pending = <<>>,
                     !.cutPrev = cut, !.items = ItemIds(g.items),
                     !.cursor = g.cursor, !.http = HttpStatus("ok")]

\* one turn of "for next.Next()" or "for prev.Next()". Next returns false
\* when the rows are used up, when the store fails under it, and when the
\* cancelled context has closed the rows (which happens beside the loop, so
\* a row may still be delivered); rows.Err() is not looked at. The feed
\* loop for the backward rows scans from the forward rows, closed by then.
CallRead(i) ==
  /\ calls[i].pc \in {"readNext", "readPrev"}
  /\ LET c == calls[i]
     IN  /\ \E closed \in BOOLEAN :
              IF \/ c.pending = <<>>
                 \/ c.store = "failing"
                 \/ (c.ctx = "cancelled" /\ closed)
              THEN calls' = [calls EXCEPT ![i] =
                               IF c.pc = "readNext"
                               THEN [c EXCEPT !.pc = "prepPrev", !.pending = <<>>,
                                              !.cutNext = c.pending # <<>>]
                               ELSE Returned(c, c.pending # <<>>)]
              ELSE IF c.pc = "readPrev" /\ c.kind = "feeds"
              THEN calls' = [calls EXCEPT ![i] = Failed(c, "rows closed")]
              ELSE calls' = ReadInto([calls EXCEPT ![i].pending = Tail(@)], i,
                                     IF c.pc = "readNext" THEN "next" ELSE "prev",
                                     Head(c.pending))
         /\ articles' = ArticlesAfterSelect(c.kind, c.pending)
  /\ UNCHANGED <<feeds, req, resp, trav, db, poller, refresh>>

\* the caller's context is cancelled or runs into its deadline
CallCancel(i) ==
  /\ calls[i].pc \notin {"idle", "done"}
  /\ calls[i].ctx = "live"
  /\ calls' = [calls EXCEPT ![i].ctx = "cancelled"]
  /\ UNCHANGED <<feeds, articles, req, resp, trav, db, poller, refresh>>

\* the store starts to fail under the call (I/O error, locked database)
CallBreak(i) ==
  /\ calls[i].pc \notin {"idle", "done"}
  /\ calls[i].store = "ok"
  /\ calls' = [calls EXCEPT ![i].store = "failing"]
  /\ UNCHANGED <<feeds, articles, req, resp, trav, db, poller, refresh>>

-----------------------------------------------------------------------------
(* SpecCall: one listing call against a store of two feeds and three       *)
(* articles; the store may not be connected, the caller may cancel and the *)
(* store may start to fail at any statement of the call                    *)

CallLimits == {<<"1">>, <<"2">>, <<"3">>}

CallCursors == {EmptyStr, <<"1">>, <<"2">>}

CallFeeds == <<[site |-> 1], [site |-> 2]>>

CallArticles == <<PostedArticle(1, 10), PostedArticle(2, 11), PostedArticle(3, 9)>>

InitCall ==
  /\ feeds = CallFeeds
  /\ articles = CallArticles
  /\ req = NoReq
  /\ resp = NoResp
  /\ trav = NoTrav
  /\ db \in {"open", "nil"}
  /\ calls = NoCalls
  /\ poller = NoPoller
  /\ refresh = NoRefresh

SoloStart == CallStart(1, ListKinds, CallLimits, CallCursors)

SoloPrepare == CallPrepare(1)

SoloQuery == CallQuery(1)

SoloRead == CallRead(1)

SoloCancel == CallCancel(1)

SoloBreak == CallBreak(1)

NextCall == SoloStart \/ SoloPrepare \/ SoloQuery \/ SoloRead \/ SoloCancel \/ SoloBreak

SpecCall == InitCall /\ [][NextCall]_vars

\* C11: a call whose context is cancelled while rows of one of its windows
\* are still unread returns the cancellation failure, never a page.
C11_CancelGivesFailure ==
  \A i \in Callers :
    (/\ calls[i].pc = "done"
     /\ calls[i].ctx = "cancelled"
     /\ calls[i].store = "ok"
     /\ (calls[i].cutNext \/ calls[i].cutPrev))
      => (calls[i].status = "error" /\ calls[i].err = "context")

\* C12: a call under which the store fails while rows of one of its windows
\* are still unread returns a failure, with no items and a zero cursor.
C12_StoreFailureAborts ==
  \A i \in Callers :
    (/\ calls[i].pc = "done"
     /\ calls[i].store = "failing"
     /\ calls[i].ctx = "live"
     /\ (calls[i].cutNext \/ calls[i].cutPrev))
      => /\ calls[i].status = "error"
         /\ calls[i].items = <<>>
         /\ calls[i].cursor = ZeroCursor

\* C13: on a store that is not connected every listing returns ErrNilDB at
\* once, without a query, and the handler answers 500.
C13_NilDbFailsFast ==
  \A i \in Callers :
    (calls[i].pc = "done" /\ db = "nil")
      => /\ calls[i].status = "error"
         /\ calls[i].err = ErrNilDB
         /\ calls[i].queries = 0
         /\ calls[i].items = <<>>
         /\ calls[i].http = 500

\* an article listing answered on a store that is not connected
C13_Witness ==
  /\ db = "nil"
  /\ calls[1].pc = "done"
  /\ calls[1].kind = "articles"
  /\ calls[1].err = ErrNilDB
  /\ calls[1].http = 500

\* C14: when a listing call has returned, with a page or with a failure, the
\* feeds and the articles, flags included, are what they were before it.
C14_StoreUntouched ==
  (\E i \in Callers : calls[i].pc = "done")
    => (feeds = CallFeeds /\ articles = CallArticles)

\* a call that returned a page with rows on it, and one that failed after
\* it had read rows
C14_Witness ==
  /\ calls[1].pc = "done"
  /\ \/ calls[1].status = "ok" /\ calls[1].items # <<>> /\ calls[1].prev # <<>>
     \/ calls[1].status = "error" /\ calls[1].next # <<>>

-----------------------------------------------------------------------------
(* SpecConcurrent: two listing calls at once on the same store, their      *)
(* statements interleaved in every way                                     *)

ConcurrentLimits == {<<"1">>, <<"2">>}

ConcurrentCursors == {EmptyStr, <<"2">>}

InitConcurrent ==
  /\ feeds = CallFeeds
  /\ articles = CallArticles
  /\ req = NoReq
  /\ resp = NoResp
  /\ trav = NoTrav
  /\ db = "open"
  /\ calls = NoCalls
  /\ poller = NoPoller
  /\ refresh = NoRefresh

AnyStart == \E i \in Callers : CallStart(i, HttpKinds, ConcurrentLimits, ConcurrentCursors)

AnyPrepare == \E i \in Callers : CallPrepare(i)

AnyQuery == \E i \in Callers : CallQuery(i)

AnyRead == \E i \in Callers : CallRead(i)

NextConcurrent == AnyStart \/ AnyPrepare \/ AnyQuery \/ AnyRead

SpecConcurrent == InitConcurrent /\ [][NextConcurrent]_vars

\* what a call hands back
Answer(status, items, cursor) == [status |-> status, items |-> items, cursor |-> cursor]

\* C15: each of several concurrent calls on an unchanged store returns a
\* page and a cursor that the same call returns when it runs alone.
C15_ConcurrentCallsAsAlone ==
  \A i \in Callers :
    calls[i].pc = "done"
      => Answer(calls[i].status, calls[i].items, calls[i].cursor) \in
           {Answer(x.status, x.items, x.cursor) :
              x \in CallOutcomes(calls[i].kind, calls[i].opts)}

\* two calls that ran at the same time and both returned a page with rows
C15_Witness ==
  /\ calls[1].pc = "done"
  /\ calls[2].pc = "done"
  /\ calls[1].overlapped
  /\ calls[2].overlapped
  /\ calls[1].status = "ok"
  /\ calls[2].status = "ok"
  /\ calls[1].items # <<>>
  /\ calls[2].items # <<>>

-----------------------------------------------------------------------------
(* SpecTwin: a feed listing and an article listing with the same options   *)
(* on a store whose feeds and articles have the same pagination keys       *)

TwinLimits == {<<"1">>, <<"2">>, <<"3">>}

TwinCursors == {EmptyStr, <<"1">>, <<"2">>, <<"3">>}

\* feeds with the ids 1, 2, 3 and unread articles published at 1, 2, 3
InitTwin ==
  /\ feeds = [i \in 1..3 |-> [site |-> i]]
  /\ articles = [i \in 1..3 |-> PostedArticle(i, i)]
  /\ req = NoReq
  /\ resp = NoResp
  /\ trav = NoTrav
  /\ db = "open"
  /\ calls = NoCalls
  /\ poller = NoPoller
  /\ refresh = NoRefresh

\* GET /api/feeds
TwinFeeds == CallStart(1, {"feeds"}, TwinLimits, TwinCursors)

\* GET /api/articles with the query string of the feed request
TwinArticles ==
  /\ calls[1].pc # "idle"
  /\ \E l \in TwinLimits, c \in TwinCursors :
       /\ ParseOptions(RawRequest(l, c, EmptyStr)) = calls[1].opts
       /\ CallStart(2, {"articles"}, {l}, {c})

TwinPrepare == \E i \in Callers : CallPrepare(i)

TwinQuery == \E i \in Callers : CallQuery(i)

TwinRead == \E i \in Callers : CallRead(i)

NextTwin == TwinFeeds \/ TwinArticles \/ TwinPrepare \/ TwinQuery \/ TwinRead

SpecTwin == InitTwin /\ [][NextTwin]_vars

\* the keys of the rows of a page
KeysOf(kind, items) == [n \in 1..Len(items) |-> KeyOf(kind, items[n])]

\* C23: for the same pagination keys, limit and cursor, ListFeeds returns
\* without error the page (by key) and the cursor that the article listing
\* returns, whether or not rows lie before the cursor.
C23_FeedsPageAsArticles ==
  (calls[1].pc = "done" /\ calls[2].pc = "done" /\ calls[2].status = "ok")
    => /\ calls[1].status = "ok"
       /\ KeysOf("feeds", calls[1].items) = KeysOf("articles", calls[2].items)
       /\ calls[1].cursor = calls[2].cursor

-----------------------------------------------------------------------------
(* RefreshFeed: the document of a feed is fetched, its items are compared  *)
(* with the articles stored for the feed, and an article is created for    *)
(* each item taken for new. A link is <<site, path>>, the path a string.   *)

\* an item of a document; valid stands for a title, an author and a date
\* that CreateArticle accepts
Item(site, path, valid, published) ==
  [link |-> <<site, path>>, valid |-> valid, published |-> published]

\* strings.EqualFold on two links
EqualFold(a, b) == a[1] = b[1] /\ ToLower(a[2]) = ToLower(b[2])

\* SELECT * FROM articles WHERE feed = ?
ListArticlesByFeed(arts, feedID) == {a \in 1..Len(arts) : arts[a].feed = feedID}

\* the items that match no article of the feed
NewArticles(arts, feedID, items) ==
  SelectSeq(items, LAMBDA fa :
    ~(\E a \in ListArticlesByFeed(arts, feedID) : EqualFold(fa.link, arts[a].link)))

\* Service.CreateArticle and SQLite.CreateArticle for an item, on the rows
\* arts: the date is parsed, title and author are checked, the feed is found
\* by the site of the link, the row is inserted unless its link is stored
CreateArticleFor(arts, fa) ==
  IF \/ ~fa.valid
     \/ ~(\E i \in FeedIDs : feeds[i].site = fa.link[1])
     \/ (\E a \in 1..Len(arts) : arts[a].link = fa.link)
  THEN [err |-> TRUE, articles |-> arts]
  ELSE [err |-> FALSE,
        articles |-> Append(arts,
          [feed |-> CHOOSE i \in FeedIDs : feeds[i].site = fa.link[1],
           link |-> fa.link, published |-> Itoa(fa.published),
           read |-> FALSE, favorited |-> FALSE])]

\* the loop over the new items: the first failure returns nil and the error
RECURSIVE StoreNewArticles(_, _, _)
StoreNewArticles(arts, items, storedArticles) ==
  IF items = <<>>
  THEN [err |-> FALSE, articles |-> arts, returned |-> storedArticles]
  ELSE LET new == CreateArticleFor(arts, Head(items))
       IN  IF new.err
           THEN [err |-> TRUE, articles |-> arts, returned |-> <<>>]
           ELSE StoreNewArticles(new.articles, Tail(items),
                                 Append(storedArticles, Len(new.articles)))

\* Service.RefreshFeed on the rows arts: the rows after it, the articles it
\* returns and whether it returns an error
RefreshFeed(arts, feedID, doc) ==
  IF ~doc.ok THEN [err |-> TRUE, articles |-> arts, returned |-> <<>>]
  ELSE StoreNewArticles(arts, NewArticles(arts, feedID, doc.items), <<>>)

\* a call of RefreshFeed
RefreshCall(feedID, doc) ==
  /\ LET r == RefreshFeed(articles, feedID, doc)
     IN  /\ articles' = r.articles
         /\ refresh' = [calls |-> refresh.calls + 1, feed |-> feedID, doc |-> doc,
                        before |-> articles, returned |-> r.returned, err |-> r.err,
                        prev |-> [calls |-> refresh.calls, feed |-> refresh.feed,
                                  doc |-> refresh.doc, err |-> refresh.err]]
  /\ UNCHANGED <<feeds, req, resp, trav, db, calls>>

-----------------------------------------------------------------------------
(* SpecRefresh: RefreshFeed called again and again for two feeds, with     *)
(* documents of up to two items                                            *)

MaxRefreshCalls == 2

\* items on the site of feed 1 whose links differ in case only, one that
\* CreateArticle rejects, and one on the site of feed 2
ItemPool ==
  {Item(1, <<"x">>, TRUE, 10), Item(1, <<"X">>, TRUE, 11),
   Item(1, <<"y">>, FALSE, 9), Item(2, <<"x">>, TRUE, 10)}

Documents ==
  {NoDoc, [ok |-> TRUE, items |-> <<>>]}
    \cup {[ok |-> TRUE, items |-> <<a>>] : a \in ItemPool}
    \cup {[ok |-> TRUE, items |-> <<a, b>>] : a \in ItemPool, b \in ItemPool}

InitRefresh ==
  /\ feeds = <<[site |-> 1], [site |-> 2]>>
  /\ articles = <<>>
  /\ req = NoReq
  /\ resp = NoResp
  /\ trav = NoTrav
  /\ db = "open"
  /\ calls = NoCalls
  /\ poller = NoPoller
  /\ refresh = NoRefresh

Refresh ==
  /\ refresh.calls < MaxRefreshCalls
  /\ \E f \in FeedIDs, doc \in Documents : RefreshCall(f, doc)
  /\ UNCHANGED poller

NextRefresh == Refresh

SpecRefresh == InitRefresh /\ [][NextRefresh]_vars

\* the articles that the last RefreshFeed call created
Created == (Len(refresh.before) + 1)..Len(articles)

\* C27: RefreshFeed creates an article only for an item of the document
\* whose link matches, ignoring case, no article stored for the feed, and
\* returns exactly the articles it created; after a call that succeeded, a
\* second call for the same feed with the same document creates no article
\* and leaves the store as it was.
C27_RefreshIsIdempotent ==
  refresh.calls > 0
    => /\ SubSeq(articles, 1, Len(refresh.before)) = refresh.before
       /\ \A a \in Created :
            \E n \in 1..Len(refresh.doc.items) :
              /\ refresh.doc.items[n].link = articles[a].link
              /\ ~(\E b \in ListArticlesByFeed(refresh.before, refresh.feed) :
                     EqualFold(articles[a].link, refresh.before[b].link))
       /\ Range(refresh.returned) = Created
       /\ (/\ refresh.prev.calls > 0
           /\ ~refresh.prev.err
           /\ refresh.prev.feed = refresh.feed
           /\ refresh.prev.doc = refresh.doc)
            => articles = refresh.before

-----------------------------------------------------------------------------
(* SpecPoll: the poller. On a tick it lists the feeds with the default     *)
(* options and calls RefreshFeed for each feed of the list; between ticks  *)
(* it returns if its context is done. The feeds' sites may be unreachable, *)
(* the store may fail under ListFeeds, the context may be cancelled.       *)

MaxTicks == 2

\* the numbers of feeds stored: none, one, a full page, and more
PollStores == {0, 1, DefaultLimit, DefaultLimit + 1, DefaultLimit + 2}

\* the feeds whose site may be unreachable: the oldest and the newest
Unreachable == {1, Len(feeds)}

\* the document of a feed: one item on the feed's site
DocumentOf(f, fetched) ==
  [ok |-> fetched, items |-> <<Item(feeds[f].site, <<"x">>, TRUE, 10)>>]

InitPoll ==
  /\ \E n \in PollStores : feeds = [i \in 1..n |-> [site |-> i]]
  /\ articles = <<>>
  /\ req = NoReq
  /\ resp = NoResp
  /\ trav = NoTrav
  /\ db = "open"
  /\ calls = NoCalls
  /\ poller = NoPoller
  /\ refresh = NoRefresh

\* the whole forward window, lookahead row included
PolledWindow(list) == list.next

\* for _, f := range feedList.Feeds
PolledFeeds(list) == list.items

\* a loop that gives the tick up at the first failed refresh
BreakOnError(err, rest) == IF err THEN <<>> ELSE rest

\* if err != nil { log; continue }: the feeds still to refresh after one
\* refresh
ContinueAfter(err, rest) == rest

\* case <-p.ticker.C: ListFeeds(ctx, nil); an error is returned, a list is
\* gone through
PollTick ==
  /\ poller.pc = "wait"
  /\ poller.ticks < MaxTicks
  /\ \E storeFails \in BOOLEAN, list \in CallOutcomes("feeds", DefaultOptions) :
       LET err == IF DbIsNil THEN ErrNilDB
                  ELSE IF poller.ctx = "done" THEN "context"
                  ELSE IF storeFails THEN "store"
                  ELSE IF list.status = "error" THEN "rows closed"
                  ELSE "none"
       IN  poller' =
             IF err # "none" THEN [poller EXCEPT !.pc = "returned", !.err = err]
             ELSE IF list.status = "panic" THEN [poller EXCEPT !.pc = "panicked"]
             ELSE [poller EXCEPT !.pc = IF PolledFeeds(list) = <<>> THEN "wait"
                                        ELSE "refresh",
                                 !.ticks = @ + 1,
                                 !.stored = Len(feeds),
                                 !.page = list.items,
                                 !.todo = PolledFeeds(list),
                                 !.refreshed = <<>>,
                                 !.failed = {}]
  /\ UNCHANGED <<feeds, articles, req, resp, trav, db, calls, refresh>>

\* one turn of the loop over the list: RefreshFeed, then the next feed
PollRefresh ==
  /\ poller.pc = "refresh"
  /\ LET f == Head(poller.todo)
     IN  /\ \E fetched \in BOOLEAN :
              /\ ~fetched => (f \in Unreachable \/ poller.ctx = "done")
              /\ fetched => poller.ctx = "live"
              /\ RefreshCall(f, DocumentOf(f, fetched))
         /\ LET rest == ContinueAfter(refresh'.err, Tail(poller.todo))
            IN  poller' = [poller EXCEPT
                  !.pc = IF rest = <<>> THEN "wait" ELSE "refresh",
                  !.todo = rest,
                  !.refreshed = Append(@, f),
                  !.failed = IF refresh'.err THEN @ \cup {f} ELSE @,
                  !.failedTick = IF refresh'.err /\ @ = 0 THEN poller.ticks ELSE @]

\* case <-ctx.Done(): return ctx.Err()
PollDone ==
  /\ poller.pc = "wait"
  /\ poller.ctx = "done"
  /\ poller' = [poller EXCEPT !.pc = "returned", !.err = "context"]
  /\ UNCHANGED <<feeds, articles, req, resp, trav, db, calls, refresh>>

\* the context of Poll is cancelled
PollCancel ==
  /\ poller.pc \in {"wait", "refresh"}
  /\ poller.ctx = "live"
  /\ poller' = [poller EXCEPT !.ctx = "done"]
  /\ UNCHANGED <<feeds, articles, req, resp, trav, db, calls, refresh>>

NextPoll == PollTick \/ PollRefresh \/ PollDone \/ PollCancel

SpecPoll == InitPoll /\ [][NextPoll]_vars

\* the first page of the feeds as stored when the tick listed them: the
\* ids from the highest down, DefaultLimit of them at most
FirstPage(stored) ==
  [i \in 1..Min(stored, DefaultLimit) |-> stored + 1 - i]

\* s is t or the beginning of t
IsPrefix(s, t) == Len(s) <= Len(t) /\ s = SubSeq(t, 1, Len(s))

\* C25: on each tick the poller refreshes exactly the feeds of the first
\* page of ListFeeds with the default options, the (at most) 10 feeds with
\* the highest ids; it asks for no further page, so with more than 10 feeds
\* stored the others are refreshed by no tick.
C25_PollRefreshesFirstPageOnly ==
  poller.ticks > 0
    => /\ poller.page = FirstPage(poller.stored)
       /\ IsPrefix(poller.refreshed, FirstPage(poller.stored))
       /\ (poller.pc = "wait" => poller.refreshed = FirstPage(poller.stored))
       /\ \A f \in 1..(poller.stored - DefaultLimit) : f \notin Range(poller.refreshed)

\* a second tick has gone through its list with more than 10 feeds stored
C25_Witness ==
  /\ poller.pc = "wait"
  /\ poller.ticks = 2
  /\ poller.stored > DefaultLimit
  /\ Len(poller.refreshed) = DefaultLimit
  /\ 1 \notin Range(poller.refreshed)

\* what holds of the poller at every moment
PollerState ==
  /\ poller.pc = "refresh" => poller.refreshed \o poller.todo = poller.page
  /\ (poller.pc = "wait" /\ poller.ticks > 0) => poller.refreshed = poller.page
  /\ poller.pc = "returned"
       => \/ poller.err = "context" /\ poller.ctx = "done"
          \/ poller.err \in {"store", "rows closed", ErrNilDB}
  /\ poller.pc \in {"wait", "refresh", "returned"}

\* what holds of every step of the poller
PollerStep ==
  /\ poller.pc = "returned" => poller' = poller
  /\ poller.pc = "refresh" => poller'.pc # "returned"
  /\ (poller.pc = "wait" /\ poller'.pc = "returned" /\ poller'.err # "context")
       => poller.ctx = "live"

\* C26: a failed RefreshFeed ends neither the tick nor the loop: the later
\* feeds of the list are refreshed and later ticks are served. Poll returns
\* only between two ticks, with the context's error when the context is
\* done, or with the error of ListFeeds; once it has returned it serves no
\* tick.
C26_RefreshFailureDoesNotStopPoll == [](PollerState) /\ [][PollerStep]_vars

\* a refresh failed for the first feed of a tick's list, the rest of the
\* list was refreshed, and a later tick went through its list
C26_Witness ==
  /\ poller.pc = "wait"
  /\ poller.failedTick = 1
  /\ poller.ticks = 2
  /\ Len(poller.page) > 1
  /\ poller.refreshed = poller.page
  /\ Head(poller.page) \in poller.failed
====
